---- MODULE Spec2Model ----
(***************************************************************************)
(* Model of clang-tidy/run.py: the Process handle (poll, returncode,       *)
(* get_output, start), worst_exit_code, execute (sequential regime and     *)
(* bounded-concurrency polling loop) and main.                             *)
(*                                                                         *)
(* The control thread of execute is one sequential process whose position  *)
(* is pc; the child processes are the environment: a running child may     *)
(* terminate at any moment (Terminate), with any exit status and output.   *)
(* execute is split at the points where the children can be observed to    *)
(* have moved: each Popen, each poll(), each get_output() and the sleep.   *)
(*                                                                         *)
(* Four specifications share the state:                                    *)
(*   Spec        main -> execute, with the children as environment;        *)
(*   FairSpec    Spec with the scheduling the code relies on;              *)
(*   HandleSpec  Process handles driven by an arbitrary caller;            *)
(*   FoldSpec    worst_exit_code folded over a list in arbitrary order.    *)
(***************************************************************************)
EXTENDS Integers, Sequences, FiniteSets, TLC

\* ---------------------------------------------------------------- bounds
MaxInv == 3
MaxJobs == 2
MaxNegJobs == 2
MaxHandles == 2
MaxCalls == 3
MaxAbs == 3
MaxFold == 3

Procs == 1..MaxInv
Handles == 1..MaxHandles
JobsRange == (0 - MaxNegJobs)..MaxJobs
ExitStatuses == {0 - 2, 0 - 1, 0, 1, 2}
FoldStatuses == (0 - MaxAbs)..MaxAbs
\* What a child may leave in its capture file: nothing, "A", or U+00E9 in UTF-8.
OutBytes == {<< >>, <<65>>, <<195, 169>>}
\* Under execute the tool's output is a function of the file it is given:
\* nothing for the first file, then "A", then U+00E9, and so on in turn.
ToolOutput(i) == IF i % 3 = 1 THEN << >> ELSE IF i % 3 = 2 THEN <<65>> ELSE <<195, 169>>

\* Python's None / a set value.
None == {}
Some(v) == {v}
The(s) == CHOOSE v \in s : TRUE

\* Truthiness of an optional text: None and the empty text are both falsy.
Falsy(o) == o = None \/ o = Some(<< >>)

\* bytes.decode("utf-8") on one- and two-byte sequences.
RECURSIVE Decode(_)
Decode(b) ==
    IF b = << >> THEN << >>
    ELSE IF Head(b) < 128 THEN <<Head(b)>> \o Decode(Tail(b))
    ELSE <<(Head(b) - 192) * 64 + (Head(Tail(b)) - 128)>> \o Decode(Tail(Tail(b)))

Min2(a, b) == IF a <= b THEN a ELSE b
Max2(a, b) == IF a >= b THEN a ELSE b

\* list[:c] and list[c:] with Python's treatment of negative and oversized c.
SliceTo(s, c) ==
    LET n == IF c >= 0 THEN Min2(c, Len(s)) ELSE Max2(Len(s) + c, 0)
    IN  SubSeq(s, 1, n)
\* Variant: the rest of the worklist starts one element too far.
SliceFromOneTooFar(s, c) ==
    LET n == IF c >= 0 THEN Min2(c, Len(s)) ELSE Max2(Len(s) + c, 0)
    IN  SubSeq(s, n + 2, Len(s))

SliceFrom(s, c) ==
    LET n == IF c >= 0 THEN Min2(c, Len(s)) ELSE Max2(Len(s) + c, 0)
    IN  SubSeq(s, n + 1, Len(s))

\* list.remove(x): drop the first occurrence.
RECURSIVE Remove(_, _)
Remove(s, x) ==
    IF s = << >> THEN << >>
    ELSE IF Head(s) = x THEN Tail(s)
    ELSE <<Head(s)>> \o Remove(Tail(s), x)

Range(s) == {s[k] : k \in 1..Len(s)}
Count(s, x) == Cardinality({k \in 1..Len(s) : s[k] = x})

\* ------------------------------------------------------ worst_exit_code
\* Variant: the branch that keeps an earlier negative code is missing.
worst_exit_code_no_keep(worst, cur) ==
    IF cur < 0 THEN Min2(worst, cur)
    ELSE Max2(worst, cur)

\* Variant: the first test reads cur <= 0, so a status of 0 counts as negative.
worst_exit_code_zero_negative(worst, cur) ==
    IF cur <= 0 THEN Min2(worst, cur)
    ELSE IF worst < 0 THEN worst
    ELSE Max2(worst, cur)

\* Variant: among negative codes the one nearest zero is kept.
worst_exit_code_nearest(worst, cur) ==
    IF cur < 0 THEN (IF worst < 0 THEN Max2(worst, cur) ELSE cur)
    ELSE IF worst < 0 THEN worst
    ELSE Max2(worst, cur)

\* Variant: a negative code is compared with max, so it never displaces 0.
worst_exit_code_max_only(worst, cur) ==
    IF cur < 0 THEN Max2(worst, cur)
    ELSE IF worst < 0 THEN worst
    ELSE Max2(worst, cur)

worst_exit_code(worst, cur) ==
    IF cur < 0 THEN Min2(worst, cur)
    ELSE IF worst < 0 THEN worst
    ELSE Max2(worst, cur)

VARIABLES
    tidy_executable, \* main's tool path ("" when not configured)
    nfiles,          \* number of source files the walk finds
    jobs,            \* the -j value
    pc,              \* position of the control thread
    invocations,     \* execute's worklist (sequence of invocation ids)
    it,              \* position of the sequential regime's for loop
    pending,         \* execute's pending list (handles, in launch order)
    complete,        \* the handles the current scan found complete
    scan,            \* position of the poll scan in pending
    capacity,        \* capacity as computed by the current iteration
    batch,           \* invocations[:capacity] still to be started
    progress,        \* the current iteration drained or started something
    h,               \* the Process handles and their child processes
    exit_code,       \* execute's accumulator
    result,          \* the value returned (None until the return)
    error,           \* the exception that ended the run ("none" if none)
    stdout,          \* what print() wrote: <<handle, text>> in order
    launched,        \* the invocations given to Popen, in order
    exits,           \* the terminated children not yet drained, in order of exit
    calls,           \* HandleSpec: get_output() calls made so far, per handle
    rets,            \* HandleSpec: the texts get_output() returned, per handle
    fold_xs,         \* FoldSpec: the statuses, in input order
    fold_rest        \* FoldSpec: the statuses not yet folded

vars == <<tidy_executable, nfiles, jobs, pc, invocations, it, pending, complete,
          scan, capacity, batch, progress, h, exit_code, result, error, stdout,
          launched, exits, calls, rets, fold_xs, fold_rest>>

config == <<tidy_executable, nfiles, jobs>>
loopv == <<complete, scan, capacity, batch, progress>>
sidev == <<calls, rets, fold_xs, fold_rest>>

\* ------------------------------------------------------- Process handle
NoHandle ==
    [st |-> "none", code |-> 0, buf |-> << >>, returncode |-> None,
     outfile |-> "none", output |-> None, waits |-> 0, reads |-> 0]

\* subprocess.Popen.poll(): record the exit status of a terminated child.
Poll(hr) == IF hr.st = "exited" THEN [hr EXCEPT !.returncode = Some(hr.code)] ELSE hr

\* Process.start: Popen with a fresh capture file, one poll, a new handle.
\* `early` says the child had already terminated (status c, output b) when
\* that poll ran.
StartHandle(early, c, b) ==
    LET popen == [NoHandle EXCEPT !.st = "running", !.outfile = "open"]
        child == IF early THEN [popen EXCEPT !.st = "exited", !.code = c, !.buf = b]
                 ELSE popen
    IN  Poll(child)

\* Variant: get_output without the proc.wait().
GetOutputNeverBlocks(hr) == FALSE

\* Process.get_output
GetOutputBlocks(hr) == Falsy(hr.output) /\ hr.st # "exited"
GetOutputRaises(hr) == Falsy(hr.output) /\ hr.outfile = "closed"
\* Variant: the capture file is read without proc.wait(), so the exit status
\* of a child that has terminated is not collected.
GetOutputStateWithoutWait(hr) ==
    IF ~Falsy(hr.output) THEN hr
    ELSE IF hr.outfile = "closed" THEN hr
    ELSE [hr EXCEPT !.output = Some(Decode(hr.buf)),
                    !.reads = hr.reads + 1,
                    !.outfile = "closed"]

GetOutputState(hr) ==
    IF ~Falsy(hr.output) THEN hr
    ELSE LET waited == [Poll(hr) EXCEPT !.waits = hr.waits + 1]
         IN  IF hr.outfile = "closed" THEN waited
             ELSE [waited EXCEPT !.output = Some(Decode(hr.buf)),
                                 !.reads = hr.reads + 1,
                                 !.outfile = "closed"]
GetOutputValue(hr) == The(GetOutputState(hr).output)

\* ------------------------------------------------------------ children
\* A running child terminates with status c, having written b.
Terminate(i, c, b) ==
    /\ h[i].st = "running"
    /\ h' = [h EXCEPT ![i].st = "exited", ![i].code = c, ![i].buf = b]
    /\ exits' = Append(exits, i)
    /\ UNCHANGED <<config, pc, invocations, it, pending, loopv, exit_code, result,
                   error, stdout, launched, sidev>>

ChildExits == \E i \in Procs, c \in ExitStatuses : Terminate(i, c, ToolOutput(i))

\* ---------------------------------------------------------------- main
Init ==
    /\ tidy_executable \in {"", "clang-tidy"}
    /\ nfiles \in 0..MaxInv
    /\ jobs \in JobsRange
    /\ pc = "main"
    /\ invocations = << >>
    /\ it = 1
    /\ pending = << >>
    /\ complete = << >>
    /\ scan = 1
    /\ capacity = 0
    /\ batch = << >>
    /\ progress = FALSE
    /\ h = [i \in Procs |-> NoHandle]
    /\ exit_code = 0
    /\ result = None
    /\ error = "none"
    /\ stdout = << >>
    /\ launched = << >>
    /\ exits = << >>
    /\ calls = [i \in Procs |-> 0]
    /\ rets = [i \in Procs |-> << >>]
    /\ fold_xs = << >>
    /\ fold_rest = << >>

\* Variant: main without the test of tidy_executable.
MainWithoutCheck ==
    /\ pc = "main"
    /\ invocations' = [k \in 1..nfiles |-> k]
    /\ pc' = IF jobs = 1 THEN "seq" ELSE "loop"
    /\ exit_code' = 0
    /\ UNCHANGED <<config, it, pending, loopv, h, result, error, stdout,
                   launched, exits, sidev>>

\* main up to the point where execute first touches a child.
Main ==
    /\ pc = "main"
    /\ IF tidy_executable = ""
       THEN /\ pc' = "exit"
            /\ result' = Some(1)
            /\ UNCHANGED invocations
       ELSE /\ invocations' = [k \in 1..nfiles |-> k]
            /\ pc' = IF jobs = 1 THEN "seq" ELSE "loop"
            /\ UNCHANGED result
    /\ exit_code' = 0
    /\ UNCHANGED <<config, it, pending, loopv, h, error, stdout,
                   launched, exits, sidev>>

\* ------------------------------------------------------------- execute
\* Variant: a failed launch is recorded and the caller carries on.
LaunchSkippingFailure(i, okpc) ==
    \/ /\ pc' = okpc
       /\ error' = "OSError"
       /\ UNCHANGED <<h, launched, exits>>
    \/ /\ \E hr \in {StartHandle(FALSE, 0, << >>)} \cup
                     {StartHandle(TRUE, c, ToolOutput(i)) : c \in ExitStatuses} :
              h' = [h EXCEPT ![i] = hr]
       /\ launched' = Append(launched, i)
       /\ exits' = IF h'[i].st = "exited" THEN Append(exits, i) ELSE exits
       /\ pc' = okpc
       /\ UNCHANGED error

\* invocation.start(verbose) -> Process.start: the launch either fails, and
\* the exception leaves execute, or yields a handle that `into` receives.
Launch(i, okpc) ==
    \/ /\ pc' = "raised"
       /\ error' = "OSError"
       /\ UNCHANGED <<h, launched, exits>>
    \/ /\ \E hr \in {StartHandle(FALSE, 0, << >>)} \cup
                     {StartHandle(TRUE, c, ToolOutput(i)) : c \in ExitStatuses} :
              h' = [h EXCEPT ![i] = hr]
       /\ launched' = Append(launched, i)
       /\ exits' = IF h'[i].st = "exited" THEN Append(exits, i) ELSE exits
       /\ pc' = okpc
       /\ UNCHANGED error

\* Variant: a child that did not exit 0 ends the run, as a checked call would.
CollectAbortingOnFailure(i, okpc) ==
    /\ ~GetOutputBlocks(h[i])
    /\ LET hr == GetOutputState(h[i])
       IN  /\ h' = [h EXCEPT ![i] = hr]
           /\ exits' = Remove(exits, i)
           /\ stdout' = Append(stdout, <<i, GetOutputValue(h[i])>>)
           /\ IF hr.returncode # Some(0)
              THEN /\ error' = "CalledProcessError"
                   /\ pc' = "raised"
                   /\ UNCHANGED exit_code
              ELSE /\ exit_code' = worst_exit_code(exit_code, The(hr.returncode))
                   /\ pc' = okpc
                   /\ UNCHANGED error

\* print(proc.get_output()); exit_code = worst_exit_code(exit_code, proc.returncode)
Collect(i, okpc) ==
    /\ ~GetOutputBlocks(h[i])
    /\ LET hr == GetOutputState(h[i])
       IN  /\ h' = [h EXCEPT ![i] = hr]
           /\ exits' = Remove(exits, i)
           /\ IF GetOutputRaises(h[i])
              THEN /\ error' = "ValueError"
                   /\ pc' = "raised"
                   /\ UNCHANGED <<stdout, exit_code>>
              ELSE IF hr.returncode = None
              THEN /\ stdout' = Append(stdout, <<i, GetOutputValue(h[i])>>)
                   /\ error' = "TypeError"
                   /\ pc' = "raised"
                   /\ UNCHANGED exit_code
              ELSE /\ stdout' = Append(stdout, <<i, GetOutputValue(h[i])>>)
                   /\ exit_code' = worst_exit_code(exit_code, The(hr.returncode))
                   /\ pc' = okpc
                   /\ UNCHANGED error

\* Sequential regime: proc = invocation.start(verbose)
SeqStart ==
    /\ pc = "seq"
    /\ it <= Len(invocations)
    /\ Launch(invocations[it], "seq_wait")
    /\ UNCHANGED <<config, invocations, it, pending, loopv, exit_code, result,
                   stdout, sidev>>

\* Sequential regime: the blocking get_output, the print and the fold.
SeqCollect ==
    /\ pc = "seq_wait"
    /\ Collect(invocations[it], "seq")
    /\ it' = it + 1
    /\ UNCHANGED <<config, invocations, pending, loopv, result, launched, sidev>>

\* Sequential regime: the for loop is exhausted, return exit_code.
SeqReturn ==
    /\ pc = "seq"
    /\ it > Len(invocations)
    /\ pc' = "done"
    /\ result' = Some(exit_code)
    /\ UNCHANGED <<config, invocations, it, pending, loopv, h, exit_code, error,
                   stdout, launched, exits, sidev>>

\* Variant: the loop condition is `while invocations:`.
LoopTestIgnoringPending ==
    /\ pc = "loop"
    /\ IF invocations # << >>
       THEN /\ complete' = << >>
            /\ scan' = 1
            /\ progress' = FALSE
            /\ pc' = IF pending = << >> THEN "refill" ELSE "poll"
            /\ UNCHANGED result
       ELSE /\ pc' = "done"
            /\ result' = Some(exit_code)
            /\ UNCHANGED <<complete, scan, progress>>
    /\ UNCHANGED <<config, invocations, it, pending, capacity, batch, h, exit_code,
                   error, stdout, launched, exits, sidev>>

\* while invocations or pending: ... return exit_code
LoopTest ==
    /\ pc = "loop"
    /\ IF invocations # << >> \/ pending # << >>
       THEN /\ complete' = << >>
            /\ scan' = 1
            /\ progress' = FALSE
            /\ pc' = IF pending = << >> THEN "refill" ELSE "poll"
            /\ UNCHANGED result
       ELSE /\ pc' = "done"
            /\ result' = Some(exit_code)
            /\ UNCHANGED <<complete, scan, progress>>
    /\ UNCHANGED <<config, invocations, it, pending, capacity, batch, h, exit_code,
                   error, stdout, launched, exits, sidev>>

\* Variant: the scan keeps every pending handle, complete or not.
PollStepTakingAll ==
    /\ pc = "poll"
    /\ LET i == pending[scan]
           hr == Poll(h[i])
           found == Append(complete, i)
       IN  /\ h' = [h EXCEPT ![i] = hr]
           /\ complete' = found
           /\ scan' = scan + 1
           /\ pc' = IF scan < Len(pending) THEN "poll"
                     ELSE IF found = << >> THEN "refill" ELSE "drain"
    /\ UNCHANGED <<config, invocations, it, pending, capacity, batch, progress,
                   exit_code, result, error, stdout, launched, exits, sidev>>

\* Variant: the scan reads proc.returncode without polling.
PollStepWithoutPoll ==
    /\ pc = "poll"
    /\ LET i == pending[scan]
           found == IF h[i].returncode # None THEN Append(complete, i) ELSE complete
       IN  /\ complete' = found
           /\ scan' = scan + 1
           /\ pc' = IF scan < Len(pending) THEN "poll"
                     ELSE IF found = << >> THEN "refill" ELSE "drain"
    /\ UNCHANGED <<config, invocations, it, pending, capacity, batch, progress, h,
                   exit_code, result, error, stdout, launched, exits, sidev>>

\* One element of: complete = [proc for proc in pending if proc.poll() is not None]
PollStep ==
    /\ pc = "poll"
    /\ LET i == pending[scan]
           hr == Poll(h[i])
           found == IF hr.returncode # None THEN Append(complete, i) ELSE complete
       IN  /\ h' = [h EXCEPT ![i] = hr]
           /\ complete' = found
           /\ scan' = scan + 1
           /\ pc' = IF scan < Len(pending) THEN "poll"
                     ELSE IF found = << >> THEN "refill" ELSE "drain"
    /\ UNCHANGED <<config, invocations, it, pending, capacity, batch, progress,
                   exit_code, result, error, stdout, launched, exits, sidev>>

\* Variant: the complete handles are drained last first.
DrainStepFromBack ==
    /\ pc = "drain"
    /\ LET i == complete[Len(complete)]
           rest == SubSeq(complete, 1, Len(complete) - 1)
       IN  /\ pending' = Remove(pending, i)
           /\ complete' = rest
           /\ progress' = TRUE
           /\ Collect(i, IF rest = << >> THEN "refill" ELSE "drain")
    /\ UNCHANGED <<config, invocations, it, scan, capacity, batch, result,
                   launched, sidev>>

\* One round of: for proc in complete: remove, print output, fold.
DrainStep ==
    /\ pc = "drain"
    /\ LET i == Head(complete)
       IN  /\ pending' = Remove(pending, i)
           /\ complete' = Tail(complete)
           /\ progress' = TRUE
           /\ Collect(i, IF Tail(complete) = << >> THEN "refill" ELSE "drain")
    /\ UNCHANGED <<config, invocations, it, scan, capacity, batch, result,
                   launched, sidev>>

\* Variant: the capacity keeps one slot free.
RefillOneShort ==
    /\ pc = "refill"
    /\ capacity' = jobs - Len(pending) - 1
    /\ batch' = SliceTo(invocations, jobs - Len(pending) - 1)
    /\ pc' = "start"
    /\ UNCHANGED <<config, invocations, it, pending, complete, scan, progress, h,
                   exit_code, result, error, stdout, launched, exits, sidev>>

\* Variant: with nothing pending the capacity is at least one, as in the
\* load-average code that is commented out.
RefillAtLeastOne ==
    /\ pc = "refill"
    /\ LET c == IF jobs - Len(pending) <= 0 /\ pending = << >>
                THEN 1 ELSE jobs - Len(pending)
       IN  /\ capacity' = c
           /\ batch' = SliceTo(invocations, c)
    /\ pc' = "start"
    /\ UNCHANGED <<config, invocations, it, pending, complete, scan, progress, h,
                   exit_code, result, error, stdout, launched, exits, sidev>>

\* Variant: the capacity does not subtract the handles still pending.
RefillIgnoringPending ==
    /\ pc = "refill"
    /\ capacity' = jobs
    /\ batch' = SliceTo(invocations, jobs)
    /\ pc' = "start"
    /\ UNCHANGED <<config, invocations, it, pending, complete, scan, progress, h,
                   exit_code, result, error, stdout, launched, exits, sidev>>

\* capacity = jobs - len(pending); the slice invocations[:capacity] is taken.
Refill ==
    /\ pc = "refill"
    /\ capacity' = jobs - Len(pending)
    /\ batch' = SliceTo(invocations, jobs - Len(pending))
    /\ pc' = "start"
    /\ UNCHANGED <<config, invocations, it, pending, complete, scan, progress, h,
                   exit_code, result, error, stdout, launched, exits, sidev>>

\* Variant: the batch is started from its back.
StartStepFromBack ==
    /\ pc = "start"
    /\ batch # << >>
    /\ Launch(batch[Len(batch)], "start")
    /\ IF pc' = "raised"
       THEN UNCHANGED <<pending, batch, progress>>
       ELSE /\ pending' = Append(pending, batch[Len(batch)])
            /\ batch' = SubSeq(batch, 1, Len(batch) - 1)
            /\ progress' = TRUE
    /\ UNCHANGED <<config, invocations, it, complete, scan, capacity, exit_code,
                   result, stdout, sidev>>

\* One element of: pending.extend(i.start(verbose) for i in invocations[:capacity])
StartStep ==
    /\ pc = "start"
    /\ batch # << >>
    /\ Launch(Head(batch), "start")
    /\ IF pc' = "raised"
       THEN UNCHANGED <<pending, batch, progress>>
       ELSE /\ pending' = Append(pending, Head(batch))
            /\ batch' = Tail(batch)
            /\ progress' = TRUE
    /\ UNCHANGED <<config, invocations, it, complete, scan, capacity, exit_code,
                   result, stdout, sidev>>

\* Variant: the sleep is skipped when the iteration made progress.
AdvanceSkippingSleep ==
    /\ pc = "start"
    /\ batch = << >>
    /\ invocations' = SliceFrom(invocations, capacity)
    /\ pc' = IF progress THEN "loop" ELSE "sleep"
    /\ UNCHANGED <<config, it, pending, loopv, h, exit_code, result, error,
                   stdout, launched, exits, sidev>>

\* invocations = invocations[capacity:]
Advance ==
    /\ pc = "start"
    /\ batch = << >>
    /\ invocations' = SliceFrom(invocations, capacity)
    /\ pc' = "sleep"
    /\ UNCHANGED <<config, it, pending, loopv, h, exit_code, result, error,
                   stdout, launched, exits, sidev>>

\* time.sleep(0.0001)
Sleep ==
    /\ pc = "sleep"
    /\ pc' = "loop"
    /\ UNCHANGED <<config, invocations, it, pending, loopv, h, exit_code, result,
                   error, stdout, launched, exits, sidev>>

Control ==
    \/ Main
    \/ SeqStart
    \/ SeqCollect
    \/ SeqReturn
    \/ LoopTest
    \/ PollStep
    \/ DrainStep
    \/ Refill
    \/ StartStep
    \/ Advance
    \/ Sleep

Next ==
    \/ Main
    \/ SeqStart
    \/ SeqCollect
    \/ SeqReturn
    \/ LoopTest
    \/ PollStep
    \/ DrainStep
    \/ Refill
    \/ StartStep
    \/ Advance
    \/ Sleep
    \/ ChildExits

Spec == Init /\ [][Next]_vars

\* The control thread keeps running while it has a step to take, and every
\* started child terminates.
FairSpec ==
    /\ Spec
    /\ WF_vars(Control)
    /\ \A i \in Procs : WF_vars(\E c \in ExitStatuses : Terminate(i, c, ToolOutput(i)))

\* ------------------------------------------- one handle, any caller
\* A caller that holds MaxHandles Process handles and, on each, calls start
\* once and then poll and get_output in any order, get_output at most
\* MaxCalls times.
HandleInit ==
    /\ tidy_executable = "clang-tidy"
    /\ nfiles = MaxHandles
    /\ jobs = 1
    /\ pc = "client"
    /\ invocations = [k \in 1..MaxHandles |-> k]
    /\ it = 1
    /\ pending = << >>
    /\ complete = << >>
    /\ scan = 1
    /\ capacity = 0
    /\ batch = << >>
    /\ progress = FALSE
    /\ h = [i \in Procs |-> NoHandle]
    /\ exit_code = 0
    /\ result = None
    /\ error = "none"
    /\ stdout = << >>
    /\ launched = << >>
    /\ exits = << >>
    /\ calls = [i \in Procs |-> 0]
    /\ rets = [i \in Procs |-> << >>]
    /\ fold_xs = << >>
    /\ fold_rest = << >>

\* Process.start(invocation)
HandleStart(i) ==
    /\ pc = "client"
    /\ h[i].st = "none"
    /\ \/ /\ pc' = "raised"
          /\ error' = "OSError"
          /\ UNCHANGED <<h, launched, exits>>
       \/ /\ \E hr \in {StartHandle(FALSE, 0, << >>)} \cup
                        {StartHandle(TRUE, c, b) : c \in ExitStatuses, b \in OutBytes} :
                 h' = [h EXCEPT ![i] = hr]
          /\ launched' = Append(launched, i)
          /\ exits' = IF h'[i].st = "exited" THEN Append(exits, i) ELSE exits
          /\ UNCHANGED <<pc, error>>
    /\ UNCHANGED <<config, invocations, it, pending, loopv, exit_code, result,
                   stdout, sidev>>

\* The child of a handle terminates, with any status and any output.
HandleChildExits(i) ==
    /\ pc = "client"
    /\ \E c \in ExitStatuses, b \in OutBytes : Terminate(i, c, b)

\* Process.poll()
HandlePoll(i) ==
    /\ pc = "client"
    /\ h[i].st # "none"
    /\ h' = [h EXCEPT ![i] = Poll(h[i])]
    /\ UNCHANGED <<config, pc, invocations, it, pending, loopv, exit_code, result,
                   error, stdout, launched, exits, sidev>>

\* Process.get_output(): returns once the child has terminated.
HandleGetOutput(i) ==
    /\ pc = "client"
    /\ h[i].st # "none"
    /\ calls[i] < MaxCalls
    /\ ~GetOutputBlocks(h[i])
    /\ calls' = [calls EXCEPT ![i] = calls[i] + 1]
    /\ h' = [h EXCEPT ![i] = GetOutputState(h[i])]
    /\ exits' = Remove(exits, i)
    /\ IF GetOutputRaises(h[i])
       THEN /\ error' = "ValueError"
            /\ pc' = "raised"
            /\ UNCHANGED rets
       ELSE /\ rets' = [rets EXCEPT ![i] = Append(rets[i], GetOutputValue(h[i]))]
            /\ UNCHANGED <<pc, error>>
    /\ UNCHANGED <<config, invocations, it, pending, loopv, exit_code, result,
                   stdout, launched, fold_xs, fold_rest>>

HandleNext ==
    \/ \E i \in Handles : HandleStart(i)
    \/ \E i \in Handles : HandleChildExits(i)
    \/ \E i \in Handles : HandlePoll(i)
    \/ \E i \in Handles : HandleGetOutput(i)

HandleSpec == HandleInit /\ [][HandleNext]_vars

\* ------------------------------------------- worst_exit_code, folded
RECURSIVE FoldLeft(_, _)
FoldLeft(acc, xs) ==
    IF xs = << >> THEN acc ELSE FoldLeft(worst_exit_code(acc, Head(xs)), Tail(xs))

DropAt(s, k) == SubSeq(s, 1, k - 1) \o SubSeq(s, k + 1, Len(s))

\* A list of up to MaxFold statuses, to be folded from 0 in any order.
FoldInit ==
    /\ tidy_executable = "clang-tidy"
    /\ nfiles = 0
    /\ jobs = 1
    /\ pc = "fold"
    /\ invocations = << >>
    /\ it = 1
    /\ pending = << >>
    /\ complete = << >>
    /\ scan = 1
    /\ capacity = 0
    /\ batch = << >>
    /\ progress = FALSE
    /\ h = [i \in Procs |-> NoHandle]
    /\ exit_code = 0
    /\ result = None
    /\ error = "none"
    /\ stdout = << >>
    /\ launched = << >>
    /\ exits = << >>
    /\ calls = [i \in Procs |-> 0]
    /\ rets = [i \in Procs |-> << >>]
    /\ \E n \in 0..MaxFold : fold_xs \in [1..n -> FoldStatuses]
    /\ fold_rest = fold_xs

\* exit_code = worst_exit_code(exit_code, s) for any one remaining status s.
FoldTake(k) ==
    /\ pc = "fold"
    /\ k \in 1..Len(fold_rest)
    /\ exit_code' = worst_exit_code(exit_code, fold_rest[k])
    /\ fold_rest' = DropAt(fold_rest, k)
    /\ UNCHANGED <<config, pc, invocations, it, pending, loopv, h, result, error,
                   stdout, launched, exits, calls, rets, fold_xs>>

FoldNext == \E k \in 1..MaxFold : FoldTake(k)

FoldSpec == FoldInit /\ [][FoldNext]_vars

\* ============================================================== claims
Codes(n) == {h[k].code : k \in 1..n}
CodeSeq(n) == [k \in 1..n |-> h[k].code]
Printed(i) == Cardinality({k \in 1..Len(stdout) : stdout[k][1] = i})
Undrained == {i \in Procs : h[i].st # "none" /\ h[i].outfile = "open"}
SetMin(S) == CHOOSE x \in S : \A y \in S : x <= y
SetMax(S) == CHOOSE x \in S : \A y \in S : x >= y

\* C1: with jobs = k > 1, in every reachable state the pending list holds at
\* most k handles, and at most k started children are still undrained.
C1_PendingAtMostJobs ==
    jobs > 1 => Len(pending) <= jobs /\ Cardinality(Undrained) <= jobs

\* The pool is full at k while invocations are still waiting in the worklist.
C1_Witness ==
    /\ jobs > 1
    /\ pc = "sleep"
    /\ Len(pending) = jobs
    /\ invocations # << >>

\* Invocation i was started once and its decoded output printed once.
DoneOnce(i) ==
    /\ Count(launched, i) = 1
    /\ Printed(i) = 1
    /\ \E k \in 1..Len(stdout) : stdout[k] = <<i, Decode(ToolOutput(i))>>
Executing == tidy_executable # ""

C3_FoldOrderIndependent ==
    pc = "fold" =>
        /\ \A a \in Range(fold_xs), b \in Range(fold_xs) :
              worst_exit_code(a, b) = worst_exit_code(b, a)
        /\ \A a \in Range(fold_xs), b \in Range(fold_xs), c \in Range(fold_xs) :
              worst_exit_code(worst_exit_code(a, b), c)
                  = worst_exit_code(a, worst_exit_code(b, c))
        /\ fold_rest = << >> => exit_code = FoldLeft(0, fold_xs)

\* A list with a negative, a zero and a positive status, folded completely.
C3_Witness ==
    /\ pc = "fold"
    /\ fold_rest = << >>
    /\ Len(fold_xs) = 3
    /\ \E k \in 1..3 : fold_xs[k] < 0
    /\ \E k \in 1..3 : fold_xs[k] = 0
    /\ \E k \in 1..3 : fold_xs[k] > 0

\* C4: whatever the regime and the order in which the children were drained,
\* execute returns the left fold from 0 of the children's statuses taken in
\* input order, which is what the sequential regime computes.
C4_ResultIsSequentialFold ==
    pc = "done" => result = Some(FoldLeft(0, CodeSeq(nfiles)))

\* A concurrent run that printed a later invocation first, with statuses of
\* different sign.
C4_Witness ==
    /\ pc = "done"
    /\ jobs > 1
    /\ nfiles >= 2
    /\ stdout[1][1] # 1
    /\ \E i \in 1..nfiles, j \in 1..nfiles : h[i].code < 0 /\ h[j].code > 0

\* C5: execute returns the minimum status if some child status is negative,
\* and otherwise the maximum of the statuses and 0.
C5_ResultIsPriorityAggregate ==
    pc = "done" =>
        result = Some(IF \E c \in Codes(nfiles) : c < 0
                      THEN SetMin(Codes(nfiles))
                      ELSE SetMax(Codes(nfiles) \cup {0}))

\* Two children with different negative statuses next to one that exits 0.
C5_Witness ==
    /\ pc = "done"
    /\ \E i \in 1..nfiles, j \in 1..nfiles, k \in 1..nfiles :
          h[i].code < 0 /\ h[j].code < h[i].code /\ h[k].code = 0

\* C6: execute returns 0 exactly when every child exited with status 0.
C6_ZeroIffAllZero ==
    pc = "done" => (result = Some(0) <=> \A k \in 1..nfiles : h[k].code = 0)

\* One child with a negative status among children that exited 0.
C6_Witness ==
    /\ pc = "done"
    /\ nfiles = MaxInv
    /\ Cardinality({k \in 1..nfiles : h[k].code = 0}) = nfiles - 1
    /\ \E k \in 1..nfiles : h[k].code < 0

\* C7 (as claimed): whatever the captured output, every get_output() call
\* on a handle returns, all calls return the same text, and two or more
\* calls perform one wait and one read between them.
C7_GetOutputMemoized ==
    \A i \in Handles :
        calls[i] >= 2 =>
            /\ Len(rets[i]) = calls[i]
            /\ \A k \in 1..Len(rets[i]) : rets[i][k] = rets[i][1]
            /\ h[i].waits = 1
            /\ h[i].reads = 1

\* C8: with jobs = 1 the outputs are printed in input order, invocation
\* i+1 is started only when invocation i has terminated, been printed and
\* been folded, and at most one child is running.
C8_SequentialInOrder ==
    (Executing /\ jobs = 1) =>
        /\ launched = [k \in 1..Len(launched) |-> k]
        /\ Len(stdout) <= Len(launched)
        /\ Len(launched) <= Len(stdout) + 1
        /\ \A k \in 1..Len(stdout) :
              /\ stdout[k] = <<k, Decode(ToolOutput(k))>>
              /\ h[k].st = "exited"
        /\ exit_code = FoldLeft(0, CodeSeq(Len(stdout)))
        /\ Cardinality({i \in Procs : h[i].st = "running"}) <= 1
        /\ pc = "done" => Len(stdout) = nfiles

\* The last of MaxInv invocations is running after the others were printed.
C8_Witness ==
    /\ jobs = 1
    /\ pc = "seq_wait"
    /\ it = MaxInv
    /\ h[MaxInv].st = "running"
    /\ Len(stdout) = MaxInv - 1

C10_ReturnsOnlyWhenAllDrained ==
    pc = "done" =>
        /\ pending = << >>
        /\ IF jobs = 1 THEN it > Len(invocations) ELSE invocations = << >>
        /\ \A i \in Procs :
              h[i].st # "none" =>
                  /\ h[i].st = "exited"
                  /\ h[i].outfile = "closed"
                  /\ Printed(i) = 1
        /\ result = Some(FoldLeft(0, [k \in 1..Len(launched) |-> h[launched[k]].code]))

\* A concurrent run of MaxInv children has returned.
C10_Witness ==
    /\ pc = "done"
    /\ jobs = 2
    /\ Len(launched) = MaxInv

\* C11: with no tool path configured main returns 1 at once: the worklist
\* is never built, no child is launched and nothing is printed.
C11_NoToolFailsFast ==
    tidy_executable = "" =>
        /\ pc \in {"main", "exit"}
        /\ pc = "exit" => result = Some(1)
        /\ pc = "main" => result = None
        /\ invocations = << >>
        /\ launched = << >>
        /\ stdout = << >>
        /\ \A i \in Procs : h[i] = NoHandle

\* main has returned 1 although the walk would have found MaxInv files.
C11_Witness ==
    /\ tidy_executable = ""
    /\ pc = "exit"
    /\ result = Some(1)
    /\ nfiles = MaxInv

\* C12: in both regimes the children are launched in worklist order: the
\* launches so far are the invocations 1, 2, ... in that order, so that
\* invocation i is launched before invocation j whenever i < j.
C12_LaunchInWorklistOrder ==
    /\ \A a \in 1..Len(launched), b \in 1..Len(launched) :
          a < b => launched[a] < launched[b]
    /\ \A j \in Range(launched) : \A i \in 1..j : i \in Range(launched)

\* All invocations launched concurrently, a later one printed first.
C12_Witness ==
    /\ jobs > 1
    /\ Len(launched) = MaxInv
    /\ Len(stdout) >= 1
    /\ stdout[1][1] # 1

\* C13: with jobs = k > 1 a refill takes exactly the first
\* min(k - |pending|, |worklist|) invocations of the worklist, starts them in
\* order into the pending list and removes them from the worklist; when it
\* is over the pending list holds k handles or the worklist is empty.
C13_RefillWorkConserving ==
    jobs > 1 =>
        /\ pc = "start" =>
              LET m == Min2(capacity, Len(invocations))
                  done == m - Len(batch)
              IN  /\ capacity >= 0
                  /\ Len(pending) = (jobs - capacity) + done
                  /\ batch = SubSeq(invocations, done + 1, m)
                  /\ SubSeq(pending, Len(pending) - done + 1, Len(pending))
                         = SubSeq(invocations, 1, done)
        /\ pc = "sleep" =>
              /\ Len(pending) = jobs \/ invocations = << >>
              /\ invocations = [k \in 1..(nfiles - Len(launched)) |-> Len(launched) + k]

\* After one child was drained, a refill with capacity 1 has topped the
\* pool up to k = 2 again with the third invocation.
C13_Witness ==
    /\ jobs = 2
    /\ pc = "sleep"
    /\ capacity = 1
    /\ Len(pending) = 2
    /\ Len(launched) = 3

\* C14 (as claimed): the scheduler is at the sleep only in an iteration in
\* which neither the drain removed a handle nor the refill started a child.
C14_SleepsOnlyWithoutProgress == pc = "sleep" => ~progress

\* C14 (amended): every iteration of the bounded-concurrency loop sleeps,
\* whether or not it drained or started anything: a completed refill is
\* always followed by the sleep, and the loop test is only reached again
\* from the sleep.
C14_SleepsEveryIteration ==
    /\ [][(pc = "start" /\ pc' \notin {"start", "raised"}) => pc' = "sleep"]_vars
    /\ [][(pc \notin {"main", "loop"} /\ pc' = "loop") => pc = "sleep"]_vars

\* The scheduler is at the sleep of an iteration that drained one child and
\* started another.
C14_Witness ==
    /\ pc = "sleep"
    /\ progress
    /\ Len(stdout) >= 1
    /\ capacity >= 1
    /\ Len(launched) = MaxInv

\* C15: in the bounded-concurrency loop every handle the scan has put in
\* complete has terminated, so the get_output() of the drain never has to
\* wait; and every output printed is that of a terminated child, fetched by
\* a single get_output().
C15_DrainNeverBlocks ==
    (Executing /\ jobs # 1) =>
        /\ \A i \in Range(complete) : h[i].st = "exited"
        /\ pc = "drain" => ~GetOutputBlocks(h[Head(complete)])
        /\ \A k \in 1..Len(stdout) :
              /\ h[stdout[k][1]].st = "exited"
              /\ h[stdout[k][1]].waits = 1
        /\ \A i \in Range(pending) \ Range(complete) : h[i].waits = 0

\* A drain is about to print while another pending child is still running.
C15_Witness ==
    /\ jobs > 1
    /\ pc = "drain"
    /\ \E i \in Range(pending) \ Range(complete) : h[i].st = "running"

\* C16: the pending list and the handles a scan found complete are in
\* launch order, and each print of a drain is that of the earliest launched
\* handle still in complete, whatever the order in which they terminated.
C16_DrainInLaunchOrder ==
    /\ [](\A a \in 1..Len(pending), b \in 1..Len(pending) :
             a < b => pending[a] < pending[b])
    /\ [](\A a \in 1..Len(complete), b \in 1..Len(complete) :
             a < b => complete[a] < complete[b])
    /\ [][(pc = "drain" /\ Len(stdout') > Len(stdout)) =>
             /\ stdout'[Len(stdout')][1] = Head(complete)
             /\ \A j \in Range(complete') : Head(complete) < j]_vars

\* One scan found both pending children complete and queued the first
\* launched one first, although the second one terminated before it.
C16_Witness ==
    /\ pc = "drain"
    /\ complete = <<1, 2>>
    /\ exits = <<2, 1>>
    /\ stdout = << >>

\* C17: a launch that fails ends the run by exception: execute has raised
\* and returned nothing, the failed invocation and those after it have no
\* child, and from then on execute launches nothing, prints nothing and
\* never returns a code.
C17_LaunchFailureIsFatal ==
    /\ [](error = "OSError" =>
            /\ pc = "raised"
            /\ result = None
            /\ Len(launched) < nfiles
            /\ \A i \in (Len(launched) + 1)..nfiles : h[i] = NoHandle)
    /\ [][pc = "raised" =>
            /\ pc' = "raised"
            /\ launched' = launched
            /\ stdout' = stdout
            /\ result' = result
            /\ exit_code' = exit_code]_vars

\* The second launch of a concurrent run failed; the first child has since
\* terminated without being drained.
C17_Witness ==
    /\ error = "OSError"
    /\ jobs > 1
    /\ nfiles = MaxInv
    /\ launched = <<1>>
    /\ h[1].st = "exited"
    /\ stdout = << >>

\* C18: a child's exit status touches nothing but the accumulator. The
\* step that prints and folds a child, whatever its status, moves control
\* to the position the lists alone determine and leaves the worklist, the
\* launches and the error state alone; no other step changes the
\* accumulator; and every return, whatever the statuses were, comes after
\* all invocations were launched in order and printed once.
C18_StatusOnlyFeedsAccumulator ==
    /\ [][Len(stdout') > Len(stdout) =>
            LET i == stdout'[Len(stdout')][1]
            IN  /\ pc' = IF pc = "seq_wait" THEN "seq"
                          ELSE IF complete' = << >> THEN "refill" ELSE "drain"
                /\ error' = error
                /\ invocations' = invocations
                /\ launched' = launched
                /\ pending' = Remove(pending, i)
                /\ exit_code' = worst_exit_code(exit_code, h'[i].code)]_vars
    /\ [][(exit_code' # exit_code) => Len(stdout') > Len(stdout)]_vars
    /\ [](pc = "done" =>
            /\ launched = [k \in 1..nfiles |-> k]
            /\ \A i \in 1..nfiles : Printed(i) = 1)

\* A run whose first child died of a signal and whose second failed has
\* still launched and printed all MaxInv invocations.
C18_Witness ==
    /\ pc = "done"
    /\ nfiles = MaxInv
    /\ h[1].code < 0
    /\ h[2].code > 0
    /\ h[MaxInv].code = 0
    /\ Len(stdout) = MaxInv

\* C19: execute never folds an unset status. The run never ends in the
\* TypeError of comparing None; every child printed and folded has its
\* returncode set to its exit status; in the concurrent regime the status
\* was already set by poll() when the drain began, in the sequential regime
\* it is set by the wait inside get_output().
C19_FoldedStatusIsSet ==
    /\ [](error # "TypeError")
    /\ [](\A k \in 1..Len(stdout) :
             h[stdout[k][1]].returncode = Some(h[stdout[k][1]].code))
    /\ [](\A i \in Range(complete) : h[i].returncode # None)
    /\ [][Len(stdout') > Len(stdout) =>
            LET i == stdout'[Len(stdout')][1]
            IN  /\ h'[i].returncode # None
                /\ h[i].st = "exited"
                /\ jobs # 1 => h[i].returncode # None
                /\ jobs = 1 => h'[i].waits = 1]_vars

\* Sequential regime, second invocation: the child has terminated but its
\* returncode is still unset, just before get_output() waits and folds it.
C19_Witness ==
    /\ jobs = 1
    /\ pc = "seq_wait"
    /\ it = 2
    /\ h[2].st = "exited"
    /\ h[2].returncode = None
    /\ h[1].returncode # None

\* C20: with jobs <= 0 and at least one invocation execute never returns:
\* the capacity is never positive, the worklist never becomes empty, so the
\* loop test never fails; and with jobs = 0 no child is ever started.
C20_NonPositiveJobsNeverReturns ==
    (Executing /\ jobs <= 0 /\ nfiles >= 1) =>
        /\ pc # "done"
        /\ result = None
        /\ capacity <= 0
        /\ pc # "main" => invocations # << >>
        /\ jobs = 0 => launched = << >> /\ \A i \in Procs : h[i] = NoHandle

\* jobs = -1 with three invocations: the first two were started by the
\* slice [:-1] and drained, the third stays in the worklist and the loop
\* keeps turning.
C20_Witness ==
    /\ jobs = 0 - 1
    /\ nfiles = 3
    /\ pc = "sleep"
    /\ Len(launched) = 2
    /\ Len(stdout) = 2
    /\ pending = << >>
    /\ invocations = <<3>>

TypeOK ==
    /\ pc \in {"main", "exit", "seq", "seq_wait", "loop", "poll", "drain", "refill",
               "start", "sleep", "done", "raised", "client", "fold"}
    /\ Len(pending) <= MaxInv
====
